---- MODULE Spec2Model ----
(***************************************************************************)
(* A model of watchdog's kqueue backend:                                   *)
(*   watchdog/observers/kqueue.py   KeventDescriptorSet, KeventDescriptor, *)
(*                                  KqueueEmitter                          *)
(*   watchdog/utils/__init__.py     DaemonThread                           *)
(*                                                                         *)
(* Two specifications share the definitions of the descriptor set:         *)
(*   Spec         two client threads call add / remove / clear /           *)
(*                get_for_fd / __getitem__ on one KeventDescriptorSet;     *)
(*   EmitterSpec  one KqueueEmitter thread, the file system it watches, a  *)
(*                thread that calls stop(), and one other thread that      *)
(*                touches the emitter's descriptor set.                    *)
(*                                                                         *)
(* The file as it stands holds statements that cannot complete as written  *)
(* (the unbound names kev, watch, ref_snapshot, new_snapshot and OSerror,  *)
(* the call of the list that the property kevents returns, the unpacking   *)
(* of three values into two).  Each such statement is modelled with both   *)
(* outcomes: the exception CPython raises there, and completion of the     *)
(* statement as it reads with the slip repaired.  A `continue` outside a   *)
(* loop ends the enclosing function.                                       *)
(***************************************************************************)
EXTENDS Integers, Sequences, FiniteSets, TLC

(***************************************************************************)
(* Bounds of the model.                                                    *)
(***************************************************************************)
\* native handles the process can hold open at once (fds 1..MaxFds)
MaxFds == 4
\* calls each client thread makes on the descriptor set under Spec
MaxCalls == 2
\* calls the other thread makes on the emitter's descriptor set
MaxExtCalls == 1
\* file-system operations the environment performs
MaxFsOps == 3
\* file-system operations the environment performs in a run in which the
\* other thread calls the emitter's descriptor set
MaxRaceFsOps == 2
\* native waits the emitter starts
MaxWaits == 2

(***************************************************************************)
(* The watched tree.  Paths are canonical absolute paths; Root is the      *)
(* watch's path.                                                           *)
(***************************************************************************)
Root == "/w"
DirPaths == {"/w", "/w/d", "/w/d2"}
FilePaths == {"/w/a", "/w/b", "/w/d/f", "/w/d2/f"}
Paths == DirPaths \cup FilePaths

Parent(p) ==
    CASE p \in {"/w/a", "/w/b", "/w/d", "/w/d2"} -> "/w"
      [] p = "/w/d/f" -> "/w/d"
      [] p = "/w/d2/f" -> "/w/d2"
      [] OTHER -> ""

\* the order in which a walk of the tree visits the paths
WalkOrder == << "/w", "/w/a", "/w/b", "/w/d", "/w/d/f", "/w/d2", "/w/d2/f" >>

\* the paths the client threads pass to the descriptor set
ClientPaths == {"/w", "/w/a", "/w/b"}

Fds == 1..MaxFds
Threads == {"emitter", "t1", "t2"}
Clients == {"t1", "t2"}
NoThread == "none"

VARIABLES
    \* KeventDescriptorSet
    descriptors,          \* self._descriptors        set of descriptors
    kevents,              \* self._kevents            set of kevent idents
    descriptor_for_path,  \* self._descriptor_for_path
    descriptor_for_fd,    \* self._descriptor_for_fd
    lock,                 \* self._lock (threading.Lock): its holder
    \* the operating system
    fs,                   \* path -> inode, 0 when the path does not exist
    next_ino,             \* the next unused inode
    open_fds,             \* fd -> inode, for the open fds
    knotes,               \* fd -> pending note flags, for fds the kqueue watches
    \* the threads
    pc,                   \* thread -> position
    frame,                \* thread -> locals of its call on the descriptor set
    res,                  \* thread -> result of its last call
    calls,                \* thread -> calls made on the descriptor set
    \* KqueueEmitter and DaemonThread
    kq_open,              \* self._kq is open
    snapshot,             \* self._snapshot
    todo,                 \* pending steps of the emitter's nested calls
    after,                \* where the emitter goes when todo is empty
    kevent_list,          \* the list handed to kq.control
    event_list,           \* the batch kq.control returned, not yet handled
    dirs_renamed,
    dirs_modified,
    queue,                \* the event queue
    stopped_event,        \* DaemonThread._stopped_event is set
    stop_returned,        \* stop() has returned to its caller
    error,                \* the exception that left the emitter
    waits,                \* native waits started so far
    fsLog,                \* history: file-system operations so far
    handled,              \* history: signals the batch loop has taken up
    enoent                \* history: registrations that failed with ENOENT

setVars == << descriptors, kevents, descriptor_for_path, descriptor_for_fd, lock >>
osVars == << fs, next_ino, open_fds, knotes >>
threadVars == << pc, frame, res, calls >>
emitterVars == << kq_open, snapshot, todo, after, kevent_list, event_list,
                  dirs_renamed, dirs_modified, queue, stopped_event,
                  stop_returned, error, waits, handled, enoent >>
vars == << setVars, osVars, threadVars, emitterVars, fsLog >>

(***************************************************************************)
(* Values.                                                                 *)
(***************************************************************************)
EmptyMap == [x \in {} |-> 0]
MapPut(m, k, v) == [x \in (DOMAIN m) \cup {k} |-> IF x = k THEN v ELSE m[x]]
MapDel(m, k) == [x \in (DOMAIN m) \ {k} |-> m[x]]

\* KeventDescriptor: path, is_directory, fd; its kevent is identified by fd
Descriptor(path, is_directory, fd) ==
    [path |-> path, is_directory |-> is_directory, fd |-> fd]
NoDescriptor == Descriptor("", FALSE, 0)
\* KeventDescriptor._key, which __eq__, __ne__ and __hash__ use
Key(d) == << d.path, d.is_directory >>

NoFrame == [op |-> "none", path |-> "", is_directory |-> FALSE, fd |-> 0,
            held |-> 0, d |-> NoDescriptor]
CallFrame(op, path, is_directory, fd) ==
    [op |-> op, path |-> path, is_directory |-> is_directory, fd |-> fd,
     held |-> 0, d |-> NoDescriptor]
NoResult == [op |-> "none", out |-> "none", path |-> "", is_directory |-> FALSE,
             fd |-> 0, held |-> 0]
Result(f, out) ==
    [op |-> f.op, out |-> out, path |-> f.path, is_directory |-> f.is_directory,
     fd |-> f.fd, held |-> f.held]

\* watchdog.utils.absolute_path, on the canonical absolute paths of the model
absolute_path(p) == p

\* os.open hands out the lowest fd that is not open
LowestFreeFd ==
    CHOOSE f \in Fds \ DOMAIN open_fds :
        \A g \in Fds \ DOMAIN open_fds : f <= g

\* os.close(fd): the fd leaves the fd table and the kqueue drops its knote
CloseFds(S) == [f \in (DOMAIN open_fds) \ S |-> open_fds[f]]
DropKnotes(S) == [f \in (DOMAIN knotes) \ S |-> knotes[f]]

(***************************************************************************)
(* KeventDescriptorSet                                                     *)
(***************************************************************************)
\* _has_path
has_path(path) == path \in DOMAIN descriptor_for_path

\* where a thread continues when its call on the descriptor set ends
Home(t) == IF t = "emitter" THEN "ret" ELSE "idle"

\* the call of thread t ends with outcome out
Return(t, out) ==
    /\ pc' = [pc EXCEPT ![t] = Home(t)]
    /\ res' = [res EXCEPT ![t] = Result(frame[t], out)]
    /\ frame' = [frame EXCEPT ![t] = NoFrame]

\* `with self._lock:` of add, remove and clear: blocks until the lock is free
Acquire(t, from, to) ==
    /\ pc[t] = from
    /\ lock = NoThread
    /\ lock' = t
    /\ pc' = [pc EXCEPT ![t] = to]
    /\ UNCHANGED << descriptors, kevents, descriptor_for_path, descriptor_for_fd,
                    osVars, frame, res, calls, emitterVars, fsLog >>

\* _add_descriptor, one statement each
add_descriptors(S, d) == IF \E e \in S : Key(e) = Key(d) THEN S ELSE S \cup {d}
add_kevents(S, d) == S \cup {d.fd}
\* a slip that leaves line 252 out
add_descriptor_for_path_dropped(m, d) == m
add_descriptor_for_path(m, d) == MapPut(m, d.path, d)
\* a slip that leaves line 253 out
add_descriptor_for_fd_dropped(m, d) == m
add_descriptor_for_fd(m, d) == MapPut(m, d.fd, d)

\* add: with self._lock
AddLock(t) == Acquire(t, "add_lock", "add_207")

\* add: the path is registered already; nothing is opened
AddKnown(t) ==
    /\ pc[t] = "add_207"
    /\ has_path(absolute_path(frame[t].path))
    /\ lock' = NoThread
    /\ Return(t, "ok")
    /\ UNCHANGED << descriptors, kevents, descriptor_for_path, descriptor_for_fd,
                    osVars, calls, emitterVars, fsLog >>

\* add: KeventDescriptor(path, is_directory) raises; the with statement
\* releases the lock and the exception reaches the caller of add
AddRaises(t) ==
    /\ pc[t] = "add_207"
    /\ ~has_path(absolute_path(frame[t].path))
    /\ \E exc \in {"NameError", "ENOENT", "EMFILE"} :
         /\ exc = "ENOENT" => fs[frame[t].path] = 0
         /\ exc = "EMFILE" => fs[frame[t].path] # 0
         /\ Return(t, exc)
    /\ lock' = NoThread
    /\ UNCHANGED << descriptors, kevents, descriptor_for_path, descriptor_for_fd,
                    osVars, calls, emitterVars, fsLog >>

\* add: KeventDescriptor(path, is_directory) opens the path
AddOpens(t) ==
    /\ pc[t] = "add_207"
    /\ ~has_path(absolute_path(frame[t].path))
    /\ fs[frame[t].path] # 0
    /\ Fds \ DOMAIN open_fds # {}
    /\ LET fd == LowestFreeFd
           d == Descriptor(absolute_path(frame[t].path), frame[t].is_directory, fd)
       IN /\ open_fds' = MapPut(open_fds, fd, fs[frame[t].path])
          /\ frame' = [frame EXCEPT ![t].d = d]
    /\ pc' = [pc EXCEPT ![t] = "add_250"]
    /\ UNCHANGED << setVars, fs, next_ino, knotes, res, calls, emitterVars, fsLog >>

Add250(t) ==
    /\ pc[t] = "add_250"
    /\ descriptors' = add_descriptors(descriptors, frame[t].d)
    /\ pc' = [pc EXCEPT ![t] = "add_251"]
    /\ UNCHANGED << kevents, descriptor_for_path, descriptor_for_fd, lock,
                    osVars, frame, res, calls, emitterVars, fsLog >>

Add251(t) ==
    /\ pc[t] = "add_251"
    /\ kevents' = add_kevents(kevents, frame[t].d)
    /\ pc' = [pc EXCEPT ![t] = "add_252"]
    /\ UNCHANGED << descriptors, descriptor_for_path, descriptor_for_fd, lock,
                    osVars, frame, res, calls, emitterVars, fsLog >>

Add252(t) ==
    /\ pc[t] = "add_252"
    /\ descriptor_for_path' = add_descriptor_for_path(descriptor_for_path, frame[t].d)
    /\ pc' = [pc EXCEPT ![t] = "add_253"]
    /\ UNCHANGED << descriptors, kevents, descriptor_for_fd, lock,
                    osVars, frame, res, calls, emitterVars, fsLog >>

Add253(t) ==
    /\ pc[t] = "add_253"
    /\ descriptor_for_fd' = add_descriptor_for_fd(descriptor_for_fd, frame[t].d)
    /\ pc' = [pc EXCEPT ![t] = "add_exit"]
    /\ UNCHANGED << descriptors, kevents, descriptor_for_path, lock,
                    osVars, frame, res, calls, emitterVars, fsLog >>

\* add: the with statement ends
AddExit(t) ==
    /\ pc[t] = "add_exit"
    /\ lock' = NoThread
    /\ Return(t, "ok")
    /\ UNCHANGED << descriptors, kevents, descriptor_for_path, descriptor_for_fd,
                    osVars, calls, emitterVars, fsLog >>


\* _remove_descriptor, one statement each
remove_descriptors(S, d) == {e \in S : Key(e) # Key(d)}
remove_descriptor_for_fd(m, d) == MapDel(m, d.fd)
remove_descriptor_for_path(m, d) == MapDel(m, d.path)
remove_kevents(S, d) == S \ {d.fd}

\* remove: with self._lock
RemoveLock(t) == Acquire(t, "remove_lock", "remove_222")

\* remove: the path is not registered; the with statement ends
RemoveAbsent(t) ==
    /\ pc[t] = "remove_222"
    /\ ~has_path(absolute_path(frame[t].path))
    /\ lock' = NoThread
    /\ Return(t, "ok")
    /\ UNCHANGED << descriptors, kevents, descriptor_for_path, descriptor_for_fd,
                    osVars, calls, emitterVars, fsLog >>

\* remove: the path is registered; self[path] is evaluated next, which is
\* a call of __getitem__ made with the lock held
RemoveKnown(t) ==
    /\ pc[t] = "remove_222"
    /\ has_path(absolute_path(frame[t].path))
    /\ frame' = [frame EXCEPT ![t].held =
                    descriptor_for_path[absolute_path(frame[t].path)].fd]
    /\ pc' = [pc EXCEPT ![t] = "getitem_lock"]
    /\ UNCHANGED << setVars, osVars, res, calls, emitterVars, fsLog >>

\* __getitem__: with self._lock: return self._descriptor_for_path[path].
\* The lock is a threading.Lock, so the call waits until no thread holds
\* it, the caller included.  Called from remove (line 223) it returns the
\* descriptor that _remove_descriptor then takes out and closes, after
\* which the with statement of remove ends.
GetItem(t) ==
    /\ pc[t] = "getitem_lock"
    /\ lock = NoThread
    /\ LET path == absolute_path(frame[t].path)
           found == path \in DOMAIN descriptor_for_path
           d == IF found THEN descriptor_for_path[path] ELSE NoDescriptor
       IN IF frame[t].op = "remove" /\ found
          THEN /\ descriptors' = remove_descriptors(descriptors, d)
               /\ descriptor_for_fd' = remove_descriptor_for_fd(descriptor_for_fd, d)
               /\ descriptor_for_path' = remove_descriptor_for_path(descriptor_for_path, d)
               /\ kevents' = remove_kevents(kevents, d)
               /\ open_fds' = CloseFds({d.fd})
               /\ knotes' = DropKnotes({d.fd})
               /\ Return(t, "ok")
          ELSE /\ Return(t, IF found THEN "ok" ELSE "KeyError")
               /\ UNCHANGED << descriptors, descriptor_for_fd, descriptor_for_path,
                               kevents, open_fds, knotes >>
    /\ UNCHANGED << lock, fs, next_ino, calls, emitterVars, fsLog >>

\* get_for_fd: with self._lock: return self._descriptor_for_fd[fd];
\* NoDescriptor stands for the KeyError of an fd that is not a key
get_for_fd(fd) ==
    IF fd \in DOMAIN descriptor_for_fd THEN descriptor_for_fd[fd] ELSE NoDescriptor

GetForFd(t) ==
    /\ pc[t] = "get_for_fd"
    /\ lock = NoThread
    /\ Return(t, IF get_for_fd(frame[t].fd) = NoDescriptor THEN "KeyError" ELSE "ok")
    /\ UNCHANGED << setVars, osVars, calls, emitterVars, fsLog >>

\* clear: with self._lock
ClearLock(t) == Acquire(t, "clear_lock", "clear_230")

\* a slip that leaves the close of line 231 out
Clear230_unclosed(t) ==
    /\ pc[t] = "clear_230"
    /\ pc' = [pc EXCEPT ![t] = "clear_232"]
    /\ UNCHANGED << setVars, osVars, frame, res, calls, emitterVars, fsLog >>

\* clear: for descriptor in self._descriptors: descriptor.close()
Clear230(t) ==
    /\ pc[t] = "clear_230"
    /\ open_fds' = CloseFds({d.fd : d \in descriptors})
    /\ knotes' = DropKnotes({d.fd : d \in descriptors})
    /\ pc' = [pc EXCEPT ![t] = "clear_232"]
    /\ UNCHANGED << setVars, fs, next_ino, frame, res, calls, emitterVars, fsLog >>

Clear232(t) ==
    /\ pc[t] = "clear_232"
    /\ descriptors' = {}
    /\ pc' = [pc EXCEPT ![t] = "clear_233"]
    /\ UNCHANGED << kevents, descriptor_for_path, descriptor_for_fd, lock,
                    osVars, frame, res, calls, emitterVars, fsLog >>

Clear233(t) ==
    /\ pc[t] = "clear_233"
    /\ descriptor_for_fd' = EmptyMap
    /\ pc' = [pc EXCEPT ![t] = "clear_234"]
    /\ UNCHANGED << descriptors, kevents, descriptor_for_path, lock,
                    osVars, frame, res, calls, emitterVars, fsLog >>

Clear234(t) ==
    /\ pc[t] = "clear_234"
    /\ descriptor_for_path' = EmptyMap
    /\ pc' = [pc EXCEPT ![t] = "clear_235"]
    /\ UNCHANGED << descriptors, kevents, descriptor_for_fd, lock,
                    osVars, frame, res, calls, emitterVars, fsLog >>

\* clear: self._kevents.clear(), and the with statement ends
Clear235(t) ==
    /\ pc[t] = "clear_235"
    /\ kevents' = {}
    /\ lock' = NoThread
    /\ Return(t, "ok")
    /\ UNCHANGED << descriptors, descriptor_for_path, descriptor_for_fd,
                    osVars, calls, emitterVars, fsLog >>

\* one step of a call on the descriptor set by thread t
SetStep(t) ==
    \/ AddLock(t) \/ AddKnown(t) \/ AddRaises(t) \/ AddOpens(t)
    \/ Add250(t) \/ Add251(t) \/ Add252(t) \/ Add253(t) \/ AddExit(t)
    \/ RemoveLock(t) \/ RemoveAbsent(t) \/ RemoveKnown(t) \/ GetItem(t)
    \/ GetForFd(t)
    \/ ClearLock(t) \/ Clear230(t) \/ Clear232(t) \/ Clear233(t)
    \/ Clear234(t) \/ Clear235(t)

(***************************************************************************)
(* A thread other than the emitter calling the descriptor set.             *)
(***************************************************************************)
Call(t, f, entry) ==
    /\ pc[t] = "idle"
    /\ frame' = [frame EXCEPT ![t] = f]
    /\ pc' = [pc EXCEPT ![t] = entry]
    /\ calls' = [calls EXCEPT ![t] = calls[t] + 1]
    /\ UNCHANGED << setVars, osVars, res, emitterVars, fsLog >>

CallAdd(t, max) ==
    /\ calls[t] < max
    /\ \E p \in ClientPaths : Call(t, CallFrame("add", p, p \in DirPaths, 0), "add_lock")

CallRemove(t, max) ==
    /\ calls[t] < max
    /\ \E p \in ClientPaths : Call(t, CallFrame("remove", p, FALSE, 0), "remove_lock")

CallClear(t, max) ==
    /\ calls[t] < max
    /\ Call(t, CallFrame("clear", "", FALSE, 0), "clear_lock")

CallGetForFd(t, max) ==
    /\ calls[t] < max
    /\ \E fd \in Fds : Call(t, CallFrame("get_for_fd", "", FALSE, fd), "get_for_fd")

CallGetItem(t, max) ==
    /\ calls[t] < max
    /\ \E p \in ClientPaths : Call(t, CallFrame("getitem", p, FALSE, 0), "getitem_lock")

ClientCall(t, max) ==
    \/ CallAdd(t, max) \/ CallRemove(t, max) \/ CallClear(t, max)
    \/ CallGetForFd(t, max) \/ CallGetItem(t, max)

(***************************************************************************)
(* Spec: two threads and one KeventDescriptorSet.                          *)
(***************************************************************************)
InitTree == [p \in Paths |->
                CASE p = "/w" -> 1 [] p = "/w/a" -> 2 [] p = "/w/d" -> 3
                  [] p = "/w/d/f" -> 4 [] OTHER -> 0]

InitCommon ==
    /\ descriptors = {}
    /\ kevents = {}
    /\ descriptor_for_path = EmptyMap
    /\ descriptor_for_fd = EmptyMap
    /\ lock = NoThread
    /\ fs = InitTree
    /\ next_ino = 5
    /\ open_fds = EmptyMap
    /\ knotes = EmptyMap
    /\ frame = [t \in Threads |-> NoFrame]
    /\ res = [t \in Threads |-> NoResult]
    /\ calls = [t \in Threads |-> 0]
    /\ kq_open = FALSE
    /\ snapshot = EmptyMap
    /\ todo = << >>
    /\ after = "none"
    /\ kevent_list = {}
    /\ event_list = << >>
    /\ dirs_renamed = {}
    /\ dirs_modified = {}
    /\ queue = << >>
    /\ stopped_event = FALSE
    /\ stop_returned = FALSE
    /\ error = "none"
    /\ waits = 0
    /\ fsLog = << >>
    /\ handled = << >>
    /\ enoent = << >>

Init ==
    /\ InitCommon
    /\ pc = [t \in Threads |-> IF t = "emitter" THEN "off" ELSE "idle"]

Next ==
    \E t \in Clients : ClientCall(t, MaxCalls) \/ SetStep(t)

Spec == Init /\ [][Next]_vars


(***************************************************************************)
(* Events and the event queue.                                             *)
(***************************************************************************)
\* watchdog.events: event_type, is_directory, src_path, dest_path
Event(type, is_directory, src, dest) ==
    [event_type |-> type, is_directory |-> is_directory,
     src_path |-> src, dest_path |-> dest]
Created(is_directory, path) == Event("created", is_directory, path, "")
Deleted(is_directory, path) == Event("deleted", is_directory, path, "")
Modified(is_directory, path) == Event("modified", is_directory, path, "")
Moved(is_directory, src, dest) == Event("moved", is_directory, src, dest)
NoEvent == Event("none", FALSE, "", "")

\* the steps of the emitter's nested calls
Step(op, path, is_directory, ev) ==
    [op |-> op, path |-> path, is_directory |-> is_directory, ev |-> ev]

\* a slip that leaves the bookkeeping of lines 392 to 396 out
queue_event_unkeyed(ev) == << Step("put", "", FALSE, ev) >>
\* KqueueEmitter.queue_event: what it does, in order, for one event
queue_event(ev) ==
    IF ev.event_type = "moved"
       THEN << Step("unregister", ev.src_path, FALSE, NoEvent),
               Step("register", ev.dest_path, ev.is_directory, NoEvent),
               Step("put", "", FALSE, ev) >>
    ELSE IF ev.event_type = "deleted"
       THEN << Step("unregister", ev.src_path, FALSE, NoEvent),
               Step("put", "", FALSE, ev) >>
    ELSE << Step("put", "", FALSE, ev) >>

\* a slip that queues the two events of lines 372 to 377 the other way round
register_enoent_swapped(path, is_directory) ==
    queue_event(Deleted(is_directory, absolute_path(path)))
        \o queue_event(Created(is_directory, absolute_path(path)))
\* KqueueEmitter._register, when add raised OSError with errno ENOENT
register_enoent(path, is_directory) ==
    queue_event(Created(is_directory, absolute_path(path)))
        \o queue_event(Deleted(is_directory, absolute_path(path)))

\* DirectorySnapshot: path -> inode of every entry of the tree at one instant
Capture == [q \in {r \in Paths : fs[r] # 0} |-> fs[q]]
\* DirectorySnapshot.path_for_inode
path_for_inode(snap, ino) == CHOOSE q \in DOMAIN snap : snap[q] = ino

\* KqueueEmitter._queue_file_renamed
queue_file_renamed(src_path, ref_snapshot, new_snapshot) ==
    IF src_path \notin DOMAIN ref_snapshot
       THEN queue_event(Created(FALSE, src_path))
                \o queue_event(Deleted(FALSE, src_path))
    ELSE IF \E q \in DOMAIN new_snapshot : new_snapshot[q] = ref_snapshot[src_path]
       THEN queue_event(Moved(FALSE, src_path,
                              path_for_inode(new_snapshot, ref_snapshot[src_path])))
    ELSE queue_event(Deleted(FALSE, src_path))

\* is_deleted, is_attrib_modified, is_modified, is_renamed, in the order of
\* the if / elif chain of lines 421 to 443
is_deleted(kev) == "DELETE" \in kev.fflags
is_attrib_modified(kev) == "ATTRIB" \in kev.fflags
is_modified(kev) == "EXTEND" \in kev.fflags \/ "WRITE" \in kev.fflags
is_renamed(kev) == "RENAME" \in kev.fflags
\* a slip that tests the rename flag first
Classify_renamed_first(kev) ==
    IF is_renamed(kev) THEN "renamed"
    ELSE IF is_deleted(kev) THEN "deleted"
    ELSE IF is_attrib_modified(kev) THEN "attrib"
    ELSE IF is_modified(kev) THEN "modified"
    ELSE "none"
Classify(kev) ==
    IF is_deleted(kev) THEN "deleted"
    ELSE IF is_attrib_modified(kev) THEN "attrib"
    ELSE IF is_modified(kev) THEN "modified"
    ELSE IF is_renamed(kev) THEN "renamed"
    ELSE "none"

(***************************************************************************)
(* KqueueEmitter.  E is the emitter's thread.                              *)
(***************************************************************************)
E == "emitter"

\* DaemonThread.should_keep_running
should_keep_running == ~stopped_event

\* the condition of the loop of queue_events, `while self._lock:`: the
\* truth value of an RLock object
queue_events_while == TRUE

\* the emitter is inside __init__
InInit == pc[E] = "init" \/ after = "run_check"

\* an exception leaves the emitter's thread (or __init__)
Crash(exc) ==
    /\ pc' = [pc EXCEPT ![E] = "crashed"]
    /\ error' = exc

\* an exception is raised inside the try statement of queue_events
Raise(exc) ==
    /\ pc' = [pc EXCEPT ![E] = "q_except"]
    /\ error' = exc

\* __init__: the kqueue is created and the walk of DirectorySnapshot lists
\* the tree; walker_callback registers every entry the walk found
EmInit ==
    /\ pc[E] = "init"
    /\ kq_open' = TRUE
    /\ snapshot' = Capture
    /\ todo' = [i \in 1..Len(SelectSeq(WalkOrder, LAMBDA q : fs[q] # 0)) |->
                  LET q == SelectSeq(WalkOrder, LAMBDA r : fs[r] # 0)[i]
                  IN Step("register", q, q \in DirPaths, NoEvent)]
    /\ after' = "run_check"
    /\ pc' = [pc EXCEPT ![E] = "exec"]
    /\ UNCHANGED << setVars, osVars, frame, res, calls, kevent_list, event_list,
                    dirs_renamed, dirs_modified, queue, stopped_event,
                    stop_returned, error, waits, handled, enoent, fsLog >>

\* the nested calls are done: the emitter goes on where they were made
ExecDone ==
    /\ pc[E] = "exec"
    /\ todo = << >>
    /\ pc' = [pc EXCEPT ![E] = after]
    /\ after' = "none"
    /\ UNCHANGED << setVars, osVars, frame, res, calls, kq_open, snapshot, todo,
                    kevent_list, event_list, dirs_renamed, dirs_modified, queue,
                    stopped_event, stop_returned, error, waits, handled, enoent, fsLog >>

\* EventEmitter.queue_event: the event goes to the end of the queue
ExecPut ==
    /\ pc[E] = "exec"
    /\ todo # << >>
    /\ Head(todo).op = "put"
    /\ queue' = Append(queue, Head(todo).ev)
    /\ todo' = Tail(todo)
    /\ UNCHANGED << setVars, osVars, threadVars, kq_open, snapshot, after,
                    kevent_list, event_list, dirs_renamed, dirs_modified,
                    stopped_event, stop_returned, error, waits, handled, enoent, fsLog >>

\* _register: self._descriptors.add(path, is_directory)
ExecRegister ==
    /\ pc[E] = "exec"
    /\ todo # << >>
    /\ Head(todo).op = "register"
    /\ frame' = [frame EXCEPT ![E] =
                    CallFrame("add", Head(todo).path, Head(todo).is_directory, 0)]
    /\ pc' = [pc EXCEPT ![E] = "add_lock"]
    /\ todo' = Tail(todo)
    /\ UNCHANGED << setVars, osVars, res, calls, kq_open, snapshot, after,
                    kevent_list, event_list, dirs_renamed, dirs_modified, queue,
                    stopped_event, stop_returned, error, waits, handled, enoent, fsLog >>

\* _unregister: self._descriptors.remove(path)
ExecUnregister ==
    /\ pc[E] = "exec"
    /\ todo # << >>
    /\ Head(todo).op = "unregister"
    /\ frame' = [frame EXCEPT ![E] = CallFrame("remove", Head(todo).path, FALSE, 0)]
    /\ pc' = [pc EXCEPT ![E] = "remove_lock"]
    /\ todo' = Tail(todo)
    /\ UNCHANGED << setVars, osVars, res, calls, kq_open, snapshot, after,
                    kevent_list, event_list, dirs_renamed, dirs_modified, queue,
                    stopped_event, stop_returned, error, waits, handled, enoent, fsLog >>

\* a call on the descriptor set returned normally
RetOk ==
    /\ pc[E] = "ret"
    /\ res[E].out = "ok"
    /\ res[E].op # "clear"
    /\ pc' = [pc EXCEPT ![E] = "exec"]
    /\ UNCHANGED << setVars, osVars, frame, res, calls, emitterVars, fsLog >>

\* _register: add raised OSError with errno ENOENT; a Created and a Deleted
\* event are queued for the path
RetEnoent ==
    /\ pc[E] = "ret"
    /\ res[E].out = "ENOENT"
    /\ todo' = register_enoent(res[E].path, res[E].is_directory) \o todo
    /\ enoent' = Append(enoent, [path |-> absolute_path(res[E].path),
                                 is_directory |-> res[E].is_directory,
                                 at |-> Len(queue)])
    /\ pc' = [pc EXCEPT ![E] = "exec"]
    /\ UNCHANGED << setVars, osVars, frame, res, calls, kq_open, snapshot, after,
                    kevent_list, event_list, dirs_renamed, dirs_modified, queue,
                    stopped_event, stop_returned, error, waits, handled, fsLog >>

\* a slip that drops every error of add other than ENOENT
RetRaises_swallowed ==
    /\ pc[E] = "ret"
    /\ res[E].out \notin {"ok", "ENOENT"}
    /\ pc' = [pc EXCEPT ![E] = "exec"]
    /\ UNCHANGED << setVars, osVars, frame, res, calls, emitterVars, fsLog >>

\* _register: all other errors are propagated
RetRaises ==
    /\ pc[E] = "ret"
    /\ res[E].out \notin {"ok", "ENOENT"}
    /\ IF InInit THEN Crash(res[E].out) ELSE Raise(res[E].out)
    /\ UNCHANGED << setVars, osVars, frame, res, calls, kq_open, snapshot, todo,
                    after, kevent_list, event_list, dirs_renamed, dirs_modified,
                    queue, stopped_event, stop_returned, waits, handled, enoent, fsLog >>


\* EventEmitter.run: queue_events is called while should_keep_running();
\* on_thread_exit follows
RunCheck ==
    /\ pc[E] = "run_check"
    /\ pc' = [pc EXCEPT ![E] = IF should_keep_running THEN "q_while"
                               ELSE "on_thread_exit"]
    /\ UNCHANGED << setVars, osVars, frame, res, calls, emitterVars, fsLog >>

\* queue_events, line 472: while self._lock
QWhile ==
    /\ pc[E] = "q_while"
    /\ pc' = [pc EXCEPT ![E] = IF queue_events_while THEN "q_kevents"
                               ELSE "run_check"]
    /\ UNCHANGED << setVars, osVars, frame, res, calls, emitterVars, fsLog >>

\* a slip that copies self._kevents and leaves the lock acquired
QKevents_held ==
    /\ pc[E] = "q_kevents"
    /\ waits < MaxWaits
    /\ lock = NoThread
    /\ lock' = E
    /\ kevent_list' = kevents
    /\ waits' = waits + 1
    /\ pc' = [pc EXCEPT ![E] = "q_read"]
    /\ UNCHANGED << descriptors, kevents, descriptor_for_path, descriptor_for_fd,
                    osVars, frame, res, calls, kq_open, snapshot, todo,
                    after, event_list, dirs_renamed, dirs_modified, queue,
                    stopped_event, stop_returned, error, handled, enoent, fsLog >>

\* line 473: the property kevents copies self._kevents under the lock of
\* the descriptor set and releases the lock
QKevents ==
    /\ pc[E] = "q_kevents"
    /\ waits < MaxWaits
    /\ lock = NoThread
    /\ kevent_list' = kevents
    /\ waits' = waits + 1
    /\ pc' = [pc EXCEPT ![E] = "q_read"]
    /\ UNCHANGED << setVars, osVars, frame, res, calls, kq_open, snapshot, todo,
                    after, event_list, dirs_renamed, dirs_modified, queue,
                    stopped_event, stop_returned, error, handled, enoent, fsLog >>

\* line 473 as written calls the list the property returned: TypeError
QKeventsRaises ==
    /\ pc[E] = "q_kevents"
    /\ Raise("TypeError")
    /\ UNCHANGED << setVars, osVars, frame, res, calls, kq_open, snapshot, todo,
                    after, kevent_list, event_list, dirs_renamed, dirs_modified,
                    queue, stopped_event, stop_returned, waits, handled, enoent, fsLog >>

\* _read_events: kq.control registers the kevents of the list with the
\* kqueue and starts to wait
WaitEnter ==
    /\ pc[E] = "q_read"
    /\ kevent_list \subseteq DOMAIN open_fds
    /\ knotes' = [f \in (DOMAIN knotes) \cup kevent_list |->
                    IF f \in DOMAIN knotes THEN knotes[f] ELSE {}]
    /\ pc' = [pc EXCEPT ![E] = "q_wait"]
    /\ UNCHANGED << setVars, fs, next_ino, open_fds, frame, res, calls,
                    emitterVars, fsLog >>

\* kq.control: an fd of the list has been closed since the list was copied
WaitEbadf ==
    /\ pc[E] = "q_read"
    /\ ~(kevent_list \subseteq DOMAIN open_fds)
    /\ Raise("EBADF")
    /\ UNCHANGED << setVars, osVars, frame, res, calls, kq_open, snapshot, todo,
                    after, kevent_list, event_list, dirs_renamed, dirs_modified,
                    queue, stopped_event, stop_returned, waits, handled, enoent, fsLog >>

\* kq.control: the wait is interrupted
WaitEintr ==
    /\ pc[E] = "q_wait"
    /\ Raise("EINTR")
    /\ UNCHANGED << setVars, osVars, frame, res, calls, kq_open, snapshot, todo,
                    after, kevent_list, event_list, dirs_renamed, dirs_modified,
                    queue, stopped_event, stop_returned, waits, handled, enoent, fsLog >>

Pending == {f \in DOMAIN knotes : knotes[f] # {}}
Orders(S) == {s \in [1..Cardinality(S) -> S] :
                \A i, j \in 1..Cardinality(S) : i # j => s[i] # s[j]}

\* kq.control returns the pending signals, one kevent per fd, and with
\* KQ_EV_CLEAR the kqueue forgets them
WaitReturn ==
    /\ pc[E] = "q_wait"
    /\ Pending # {}
    /\ \E s \in Orders(Pending) :
          event_list' = [i \in 1..Cardinality(Pending) |->
                            [ident |-> s[i], fflags |-> knotes[s[i]]]]
    /\ knotes' = [f \in DOMAIN knotes |-> {}]
    /\ dirs_renamed' = {}
    /\ dirs_modified' = {}
    /\ pc' = [pc EXCEPT ![E] = "q_batch"]
    /\ UNCHANGED << setVars, fs, next_ino, open_fds, frame, res, calls, kq_open,
                    snapshot, todo, after, kevent_list, queue, stopped_event,
                    stop_returned, error, waits, handled, enoent, fsLog >>

\* kq.control returns no signal when the timeout ends
WaitTimeout ==
    /\ pc[E] = "q_wait"
    /\ Pending = {}
    /\ event_list' = << >>
    /\ dirs_renamed' = {}
    /\ dirs_modified' = {}
    /\ pc' = [pc EXCEPT ![E] = "q_batch"]
    /\ UNCHANGED << setVars, osVars, frame, res, calls, kq_open, snapshot, todo,
                    after, kevent_list, queue, stopped_event, stop_returned,
                    error, waits, handled, enoent, fsLog >>

\* history: the batch loop takes up signal kev, which resolved to d, in
\* the iteration of native wait `wait`, with `at` events in the queue
Handled(kev, d) ==
    Append(handled, [ident |-> kev.ident, fflags |-> kev.fflags,
                     path |-> d.path, is_directory |-> d.is_directory,
                     wait |-> waits, at |-> Len(queue)])

\* a slip that queues a Modified event for a modified directory as well
DirectEvent_dirs(kev, d) ==
    CASE Classify(kev) = "deleted" -> Deleted(d.is_directory, d.path)
      [] Classify(kev) \in {"attrib", "modified"} -> Modified(d.is_directory, d.path)
      [] OTHER -> NoEvent

\* the event lines 421 to 438 queue for a signal, NoEvent when none
DirectEvent(kev, d) ==
    CASE Classify(kev) = "deleted" -> Deleted(d.is_directory, d.path)
      [] Classify(kev) = "attrib" -> Modified(d.is_directory, d.path)
      [] Classify(kev) = "modified" /\ ~d.is_directory -> Modified(FALSE, d.path)
      [] OTHER -> NoEvent

\* line 418: get_for_fd raises KeyError for a signal whose fd is not
\* registered; nothing in the loop catches it
BatchUnknown ==
    /\ pc[E] = "q_batch"
    /\ event_list # << >>
    /\ lock = NoThread
    /\ get_for_fd(Head(event_list).ident) = NoDescriptor
    /\ handled' = Handled(Head(event_list), NoDescriptor)
    /\ event_list' = Tail(event_list)
    /\ Raise("KeyError")
    /\ UNCHANGED << setVars, osVars, frame, res, calls, kq_open, snapshot, todo,
                    after, kevent_list, dirs_renamed, dirs_modified, queue,
                    stopped_event, stop_returned, waits, enoent, fsLog >>

\* lines 421 to 438: a signal that queues an event at once
BatchQueue ==
    /\ pc[E] = "q_batch"
    /\ event_list # << >>
    /\ lock = NoThread
    /\ LET kev == Head(event_list)
           d == get_for_fd(kev.ident)
       IN /\ d # NoDescriptor
          /\ DirectEvent(kev, d) # NoEvent
          /\ todo' = queue_event(DirectEvent(kev, d))
          /\ handled' = Handled(kev, d)
    /\ event_list' = Tail(event_list)
    /\ after' = "q_batch"
    /\ pc' = [pc EXCEPT ![E] = "exec"]
    /\ UNCHANGED << setVars, osVars, frame, res, calls, kq_open, snapshot,
                    kevent_list, dirs_renamed, dirs_modified, queue,
                    stopped_event, stop_returned, error, waits, enoent, fsLog >>

\* lines 431 to 441: a modified or renamed directory only enters its set;
\* a signal with none of the four kinds of flag does nothing
BatchDefer ==
    /\ pc[E] = "q_batch"
    /\ event_list # << >>
    /\ lock = NoThread
    /\ LET kev == Head(event_list)
           d == get_for_fd(kev.ident)
       IN /\ d # NoDescriptor
          /\ DirectEvent(kev, d) = NoEvent
          /\ ~(Classify(kev) = "renamed" /\ ~d.is_directory)
          /\ dirs_modified' = IF Classify(kev) = "modified"
                                 THEN dirs_modified \cup {d.path} ELSE dirs_modified
          /\ dirs_renamed' = IF Classify(kev) = "renamed"
                                THEN dirs_renamed \cup {d.path} ELSE dirs_renamed
          /\ handled' = Handled(kev, d)
    /\ event_list' = Tail(event_list)
    /\ UNCHANGED << setVars, osVars, threadVars, kq_open, snapshot, todo, after,
                    kevent_list, queue, stopped_event, stop_returned, error,
                    waits, enoent, fsLog >>

\* line 443: a renamed file; ref_snapshot is the emitter's snapshot and
\* new_snapshot a fresh one
BatchFileRenamed ==
    /\ pc[E] = "q_batch"
    /\ event_list # << >>
    /\ lock = NoThread
    /\ LET kev == Head(event_list)
           d == get_for_fd(kev.ident)
       IN /\ d # NoDescriptor
          /\ Classify(kev) = "renamed" /\ ~d.is_directory
          /\ todo' = queue_file_renamed(d.path, snapshot, Capture)
          /\ handled' = Handled(kev, d)
    /\ event_list' = Tail(event_list)
    /\ after' = "q_batch"
    /\ pc' = [pc EXCEPT ![E] = "exec"]
    /\ UNCHANGED << setVars, osVars, frame, res, calls, kq_open, snapshot,
                    kevent_list, dirs_renamed, dirs_modified, queue,
                    stopped_event, stop_returned, error, waits, enoent, fsLog >>

\* line 443 as written reads ref_snapshot and new_snapshot, which
\* _queue_events_except_renames_and_dir_modifications never binds: NameError
BatchFileRenamedRaises ==
    /\ pc[E] = "q_batch"
    /\ event_list # << >>
    /\ lock = NoThread
    /\ LET kev == Head(event_list)
           d == get_for_fd(kev.ident)
       IN /\ d # NoDescriptor
          /\ Classify(kev) = "renamed" /\ ~d.is_directory
          /\ handled' = Handled(kev, d)
    /\ event_list' = Tail(event_list)
    /\ Raise("NameError")
    /\ UNCHANGED << setVars, osVars, frame, res, calls, kq_open, snapshot, todo,
                    after, kevent_list, dirs_renamed, dirs_modified, queue,
                    stopped_event, stop_returned, waits, enoent, fsLog >>

\* line 475: the batch has been handled
BatchEnd ==
    /\ pc[E] = "q_batch"
    /\ event_list = << >>
    /\ pc' = [pc EXCEPT ![E] = "q_snapshot"]
    /\ UNCHANGED << setVars, osVars, frame, res, calls, emitterVars, fsLog >>

\* line 475 as written unpacks the three sets returned into two names:
\* ValueError
BatchEndRaises ==
    /\ pc[E] = "q_batch"
    /\ event_list = << >>
    /\ Raise("ValueError")
    /\ UNCHANGED << setVars, osVars, frame, res, calls, kq_open, snapshot, todo,
                    after, kevent_list, event_list, dirs_renamed, dirs_modified,
                    queue, stopped_event, stop_returned, waits, handled, enoent, fsLog >>

\* _queue_from_dirs_renamed and _queue_from_dirs_modified: pass
queue_from_dirs_renamed(q, dirs, ref_snapshot, new_snapshot) == q
queue_from_dirs_modified(q, dirs, ref_snapshot, new_snapshot) == q

\* lines 480 to 490: a fresh snapshot replaces the saved one, and the two
\* sets of directories are handed to _queue_from_dirs_renamed and
\* _queue_from_dirs_modified
QSnapshot ==
    /\ pc[E] = "q_snapshot"
    /\ snapshot' = Capture
    /\ queue' = IF dirs_renamed # {} \/ dirs_modified # {}
                   THEN queue_from_dirs_modified(
                            queue_from_dirs_renamed(queue, dirs_renamed,
                                                    snapshot, Capture),
                            dirs_modified, snapshot, Capture)
                   ELSE queue
    /\ pc' = [pc EXCEPT ![E] = "q_while"]
    /\ UNCHANGED << setVars, osVars, frame, res, calls, kq_open, todo, after,
                    kevent_list, event_list, dirs_renamed, dirs_modified,
                    stopped_event, stop_returned, error, waits, handled, enoent, fsLog >>

\* lines 480 and 484 as written read watch and dirs_modified, which
\* queue_events never binds: NameError
QSnapshotRaises ==
    /\ pc[E] = "q_snapshot"
    /\ Raise("NameError")
    /\ UNCHANGED << setVars, osVars, frame, res, calls, kq_open, snapshot, todo,
                    after, kevent_list, event_list, dirs_renamed, dirs_modified,
                    queue, stopped_event, stop_returned, waits, handled, enoent, fsLog >>

\* line 491 as written names OSerror, which nothing binds: matching any
\* exception against it raises NameError
ExceptNameError ==
    /\ pc[E] = "q_except"
    /\ Crash("NameError")
    /\ UNCHANGED << setVars, osVars, frame, res, calls, kq_open, snapshot, todo,
                    after, kevent_list, event_list, dirs_renamed, dirs_modified,
                    queue, stopped_event, stop_returned, waits, handled, enoent, fsLog >>

\* lines 491 to 494: OSError with errno EBADF is dropped and queue_events
\* ends
ExceptEbadf ==
    /\ pc[E] = "q_except"
    /\ error = "EBADF"
    /\ error' = "none"
    /\ pc' = [pc EXCEPT ![E] = "run_check"]
    /\ UNCHANGED << setVars, osVars, frame, res, calls, kq_open, snapshot, todo,
                    after, kevent_list, event_list, dirs_renamed, dirs_modified,
                    queue, stopped_event, stop_returned, waits, handled, enoent, fsLog >>

\* lines 495 and 496, and every exception that is no OSError: it leaves
\* queue_events
ExceptPropagates ==
    /\ pc[E] = "q_except"
    /\ error # "EBADF"
    /\ Crash(error)
    /\ UNCHANGED << setVars, osVars, frame, res, calls, kq_open, snapshot, todo,
                    after, kevent_list, event_list, dirs_renamed, dirs_modified,
                    queue, stopped_event, stop_returned, waits, handled, enoent, fsLog >>

\* on_thread_exit: self._descriptors.clear()
OnThreadExit ==
    /\ pc[E] = "on_thread_exit"
    /\ frame' = [frame EXCEPT ![E] = CallFrame("clear", "", FALSE, 0)]
    /\ pc' = [pc EXCEPT ![E] = "clear_lock"]
    /\ UNCHANGED << setVars, osVars, res, calls, emitterVars, fsLog >>

\* on_thread_exit: self._kq.close()
RetClear ==
    /\ pc[E] = "ret"
    /\ res[E].op = "clear"
    /\ kq_open' = FALSE
    /\ pc' = [pc EXCEPT ![E] = "stopped"]
    /\ UNCHANGED << setVars, osVars, frame, res, calls, snapshot, todo, after,
                    kevent_list, event_list, dirs_renamed, dirs_modified, queue,
                    stopped_event, stop_returned, error, waits, handled, enoent, fsLog >>

\* DaemonThread.stop: the event is set, on_thread_told_to_stop does
\* nothing, and stop returns.  Only EventEmitter.run reads the event, so
\* the call is placed during a native wait or right before run reads it.
Stop ==
    /\ ~InInit
    /\ pc[E] \in {"q_wait", "run_check"}
    /\ ~stopped_event
    /\ stopped_event' = TRUE
    /\ stop_returned' = TRUE
    /\ UNCHANGED << setVars, osVars, threadVars, kq_open, snapshot, todo, after,
                    kevent_list, event_list, dirs_renamed, dirs_modified, queue,
                    error, waits, handled, enoent, fsLog >>

EmitterStep ==
    \/ EmInit \/ ExecDone \/ ExecPut \/ ExecRegister \/ ExecUnregister
    \/ RetOk \/ RetEnoent \/ RetRaises \/ RetClear
    \/ RunCheck \/ QWhile \/ QKevents \/ QKeventsRaises
    \/ WaitEnter \/ WaitEbadf \/ WaitEintr \/ WaitReturn \/ WaitTimeout
    \/ BatchUnknown \/ BatchQueue \/ BatchDefer \/ BatchFileRenamed
    \/ BatchFileRenamedRaises \/ BatchEnd \/ BatchEndRaises
    \/ QSnapshot \/ QSnapshotRaises
    \/ ExceptNameError \/ ExceptEbadf \/ ExceptPropagates
    \/ OnThreadExit


(***************************************************************************)
(* The file system under the watch, changed by other processes.  A change  *)
(* leaves a note on every fd the kqueue watches that is open on the inode. *)
(***************************************************************************)
\* The emitter tells a change of the tree apart only through a step that
\* reads the tree or the kqueue (the walk, os.open, a snapshot, kq.control);
\* the changes are placed right before such steps, while the emitter lives.
FsVisible == pc[E] \in {"init", "add_207", "q_read", "q_wait", "q_batch", "q_snapshot"}

\* the environment may perform one more operation
FsAllowed ==
    /\ FsVisible
    /\ Len(fsLog) < (IF calls["t1"] > 0 THEN MaxRaceFsOps ELSE MaxFsOps)

Notes(k, ino, flag) ==
    [f \in DOMAIN k |-> IF open_fds[f] = ino THEN k[f] \cup {flag} ELSE k[f]]

\* history: the operation, and the native wait during which it happened
\* (0 when the emitter was not waiting)
Logged(op, path, to) ==
    Append(fsLog, [op |-> op, path |-> path, to |-> to,
                   wait |-> IF pc[E] = "q_wait" THEN waits ELSE 0])

\* rename(2) of a file within the root directory
FsRenameFile ==
    /\ FsAllowed
    /\ \E src, dst \in {"/w/a", "/w/b"} :
          /\ fs[src] # 0 /\ fs[dst] = 0
          /\ fs' = [fs EXCEPT ![src] = 0, ![dst] = fs[src]]
          /\ knotes' = Notes(Notes(knotes, fs[src], "RENAME"), fs[Root], "WRITE")
          /\ fsLog' = Logged("rename", src, dst)
    /\ UNCHANGED << setVars, next_ino, open_fds, threadVars, emitterVars >>

\* rename(2) of a directory of the root directory, with the file in it
FsRenameDir ==
    /\ FsAllowed
    /\ \E src, dst \in {"/w/d", "/w/d2"} :
          /\ fs[src] # 0 /\ fs[dst] = 0
          /\ LET srcf == IF src = "/w/d" THEN "/w/d/f" ELSE "/w/d2/f"
                 dstf == IF dst = "/w/d" THEN "/w/d/f" ELSE "/w/d2/f"
             IN fs' = [fs EXCEPT ![src] = 0, ![dst] = fs[src],
                                 ![srcf] = 0, ![dstf] = fs[srcf]]
          /\ knotes' = Notes(Notes(knotes, fs[src], "RENAME"), fs[Root], "WRITE")
          /\ fsLog' = Logged("rename", src, dst)
    /\ UNCHANGED << setVars, next_ino, open_fds, threadVars, emitterVars >>

\* a file is created in the root directory
FsCreate ==
    /\ FsAllowed
    /\ \E q \in {"/w/a", "/w/b"} :
          /\ fs[q] = 0
          /\ fs' = [fs EXCEPT ![q] = next_ino]
          /\ fsLog' = Logged("create", q, "")
    /\ next_ino' = next_ino + 1
    /\ knotes' = Notes(knotes, fs[Root], "WRITE")
    /\ UNCHANGED << setVars, open_fds, threadVars, emitterVars >>

\* bytes are appended to a file of the root directory
FsAppend ==
    /\ FsAllowed
    /\ \E q \in {"/w/a", "/w/b"} :
          /\ fs[q] # 0
          /\ knotes' = Notes(knotes, fs[q], "WRITE")
          /\ fsLog' = Logged("append", q, "")
    /\ UNCHANGED << setVars, fs, next_ino, open_fds, threadVars, emitterVars >>

\* unlink(2) of a file of the root directory
FsUnlink ==
    /\ FsAllowed
    /\ \E q \in {"/w/a", "/w/b"} :
          /\ fs[q] # 0
          /\ fs' = [fs EXCEPT ![q] = 0]
          /\ knotes' = Notes(Notes(knotes, fs[q], "DELETE"), fs[Root], "WRITE")
          /\ fsLog' = Logged("unlink", q, "")
    /\ UNCHANGED << setVars, next_ino, open_fds, threadVars, emitterVars >>

\* chmod(2) of a file of the root directory
FsChmod ==
    /\ FsAllowed
    /\ \E q \in {"/w/a", "/w/b"} :
          /\ fs[q] # 0
          /\ knotes' = Notes(knotes, fs[q], "ATTRIB")
          /\ fsLog' = Logged("chmod", q, "")
    /\ UNCHANGED << setVars, fs, next_ino, open_fds, threadVars, emitterVars >>

FsStep == FsRenameFile \/ FsRenameDir \/ FsCreate \/ FsAppend \/ FsUnlink \/ FsChmod

(***************************************************************************)
(* EmitterSpec: one emitter, the file system, stop(), and one other thread *)
(* calling the emitter's descriptor set.                                   *)
(***************************************************************************)
EmitterInit ==
    /\ InitCommon
    /\ pc = [t \in Threads |->
                CASE t = "emitter" -> "init" [] t = "t1" -> "idle" [] OTHER -> "off"]

\* the other thread: it can reach the descriptor set once __init__ has
\* returned the emitter, and while the emitter's thread lives
ExtCall(t) ==
    /\ ~InInit
    /\ pc[E] \notin {"crashed", "stopped"}
    /\ Len(fsLog) <= MaxRaceFsOps
    /\ ClientCall(t, MaxExtCalls)

EmitterNext ==
    \/ EmitterStep
    \/ SetStep(E)
    \/ FsStep
    \/ Stop
    \/ ExtCall("t1")
    \/ SetStep("t1")

EmitterSpec == EmitterInit /\ [][EmitterNext]_vars

(***************************************************************************)
(* The claims.                                                             *)
(***************************************************************************)
Last(s) == s[Len(s)]
\* the events of the queue that name path p, in the order of the queue
EventsFor(p) == SelectSeq(queue, LAMBDA e : e.src_path = p \/ e.dest_path = p)
\* how often event ev is in the queue
Count(ev) == Cardinality({i \in 1..Len(queue) : queue[i] = ev})
\* the positions of the emitter inside a call of queue_event that goes on
QueueingEvent ==
    /\ pc[E] \in {"exec", "ret", "remove_lock", "remove_222", "add_lock",
                  "add_207", "add_250", "add_251", "add_252", "add_253",
                  "add_exit"}
    /\ error = "none"

OnePerPath ==
    /\ \A d1, d2 \in descriptors : d1.path = d2.path => d1 = d2
    /\ \A f1, f2 \in DOMAIN descriptor_for_fd :
          descriptor_for_fd[f1].path = descriptor_for_fd[f2].path => f1 = f2
    /\ \A q \in DOMAIN descriptor_for_path : descriptor_for_path[q].path = q

\* C1: after any calls of add and remove every path has at most one
\* descriptor, and a remove(p) that has run as far as it runs has
\* returned and left the handle p's descriptor held unknown to get_for_fd.
C1_OnePerPathGoneAfterRemove ==
    /\ OnePerPath
    /\ \A t \in Clients :
          (frame[t].op = "remove" /\ frame[t].held # 0 /\ ~ENABLED SetStep(t))
              => get_for_fd(frame[t].held) = NoDescriptor

SetConsistent ==
    LET byPath == {descriptor_for_path[q] : q \in DOMAIN descriptor_for_path}
        byFd == {descriptor_for_fd[f] : f \in DOMAIN descriptor_for_fd}
    IN /\ descriptors = byPath
       /\ descriptors = byFd
       /\ kevents = {d.fd : d \in descriptors}
       /\ \A q \in DOMAIN descriptor_for_path : descriptor_for_path[q].path = q
       /\ \A f \in DOMAIN descriptor_for_fd : descriptor_for_fd[f].fd = f

\* C2: whenever the lock of the descriptor set is not held, the path index,
\* the fd index, the descriptor set and the kevent set hold exactly the
\* same descriptors.
C2_IndicesAgree == lock = NoThread => SetConsistent

\* C2 witness: the lock is free, descriptors are registered, and an add and
\* a clear have both run to their end.
C2_Witness ==
    /\ lock = NoThread
    /\ descriptors # {}
    /\ \E t, u \in Clients :
          /\ res[t].op = "add" /\ res[t].out = "ok"
          /\ res[u].op = "clear"

\* C3: a stop signalled while the emitter is in the native wait is seen at
\* the next check of the loop of queue_events: with the stop flag set the
\* emitter does not pass that check and go on to the next wait.  (stop is
\* signalled during a wait or right before run reads the flag, and after
\* the latter run leaves at once.)
C3_StopSeenAtLoopCheck == ~(stopped_event /\ pc[E] = "q_kevents")

\* C4: stop() has returned to its caller only in states in which the
\* descriptor set is empty and the kqueue is closed.
C4_StopReturnsAfterCleanup ==
    stop_returned =>
        /\ descriptors = {}
        /\ DOMAIN descriptor_for_path = {}
        /\ DOMAIN descriptor_for_fd = {}
        /\ ~kq_open

\* C5: when the one change of the tree is the rename of a tracked file src
\* to dest and the batch loop has taken up the rename signal, then either
\* the emitter is still at work inside queue_event, or the queue holds
\* exactly one Moved(src, dest), no Created and no Deleted for src or dest,
\* and dest is registered under a handle that resolves to dest.
C5_FileRenameOneMoved ==
    \A i \in 1..Len(handled) :
        LET h == handled[i]
            src == h.path
            dest == fsLog[1].to
        IN (/\ Len(fsLog) = 1
            /\ fsLog[1].op = "rename"
            /\ fsLog[1].path = src
            /\ src \in FilePaths
            /\ "RENAME" \in h.fflags
            /\ calls["t1"] = 0)
           => \/ QueueingEvent
              \/ /\ Count(Moved(FALSE, src, dest)) = 1
                 /\ \A q \in {src, dest} :
                       /\ Count(Created(FALSE, q)) = 0
                       /\ Count(Deleted(FALSE, q)) = 0
                 /\ has_path(dest)
                 /\ get_for_fd(descriptor_for_path[dest].fd).path = dest

\* C6: a registration that failed with ENOENT never leaves the emitter as
\* an error; the two events queued next are Created(path) and then
\* Deleted(path), with the tag of the registration; until they are both
\* queued the emitter is at work inside queue_event; and the descriptor set
\* then holds no descriptor for the path (as long as no other thread has
\* called the set).
C6_VanishedPathCreatedDeleted ==
    /\ error # "ENOENT"
    /\ \A i \in 1..Len(enoent) :
          LET r == enoent[i]
          IN /\ Len(queue) > r.at =>
                    queue[r.at + 1] = Created(r.is_directory, r.path)
             /\ Len(queue) > r.at + 1 =>
                    queue[r.at + 2] = Deleted(r.is_directory, r.path)
             /\ Len(queue) < r.at + 2 => QueueingEvent
             /\ (/\ i = Len(enoent)
                 /\ Len(queue) <= r.at + 2
                 /\ \A t \in Clients : calls[t] = 0)
                    => ~has_path(r.path)

\* C6 witness: a registration failed with ENOENT, both events are queued,
\* the path has no descriptor, and the emitter has gone on to a native wait.
C6_Witness ==
    /\ enoent # << >>
    /\ Len(queue) >= enoent[1].at + 2
    /\ ~has_path(enoent[1].path)
    /\ pc[E] = "q_wait"

\* C7: when "/w/b" is created, appended to and unlinked during one native
\* wait, and these are the only changes of the tree, then at the end of the
\* loop iteration of that wait the events queued for "/w/b" are exactly
\* Created, Modified, Deleted, in this order.
C7_CreateAppendUnlink ==
    (/\ Len(fsLog) = 3
     /\ fsLog[1].wait >= 1
     /\ fsLog[1] = [op |-> "create", path |-> "/w/b", to |-> "", wait |-> fsLog[1].wait]
     /\ fsLog[2] = [op |-> "append", path |-> "/w/b", to |-> "", wait |-> fsLog[1].wait]
     /\ fsLog[3] = [op |-> "unlink", path |-> "/w/b", to |-> "", wait |-> fsLog[1].wait]
     /\ waits = fsLog[1].wait
     /\ pc[E] = "q_while")
    => EventsFor("/w/b") = << Created(FALSE, "/w/b"), Modified(FALSE, "/w/b"),
                              Deleted(FALSE, "/w/b") >>

\* C8: when the watched directory "/w/d", which holds the file f, is renamed
\* to "/w/d2" during a native wait, and this is the only change of the
\* tree, then at the end of the loop iteration of that wait the queue holds
\* Moved("/w/d", "/w/d2"), "/w/d2/f" is registered, and the queue holds no
\* Deleted("/w/d/f").
C8_DirRenameMovedAndResync ==
    (/\ Len(fsLog) = 1
     /\ fsLog[1] = [op |-> "rename", path |-> "/w/d", to |-> "/w/d2",
                    wait |-> fsLog[1].wait]
     /\ fsLog[1].wait >= 1
     /\ waits = fsLog[1].wait
     /\ pc[E] = "q_while"
     /\ calls["t1"] = 0)
    => /\ Count(Moved(TRUE, "/w/d", "/w/d2")) >= 1
       /\ has_path("/w/d2/f")
       /\ Count(Deleted(FALSE, "/w/d/f")) = 0

\* C9: every call of remove returns: no thread inside remove waits for the
\* lock of the descriptor set while holding that lock itself.
C9_RemoveReturns ==
    \A t \in Threads : ~(frame[t].op = "remove" /\ pc[t] = "getitem_lock" /\ lock = t)

\* C10: when the batch loop takes up a signal whose handle is not
\* registered, no exception is raised in the emitter and nothing is queued
\* for the signal.
C10_UnknownHandleSkipped ==
    (/\ handled # << >>
     /\ Last(handled).path = ""
     /\ Last(handled).wait = waits
     /\ pc[E] \in {"q_batch", "q_except", "crashed"})
    => /\ error = "none"
       /\ pc[E] = "q_batch"

C12_DeletedUnregisters ==
    (/\ handled # << >>
     /\ Last(handled).path # ""
     /\ "DELETE" \in Last(handled).fflags
     /\ calls["t1"] = 0)
    => \/ QueueingEvent
       \/ /\ Count(Deleted(Last(handled).is_directory, Last(handled).path)) = 1
          /\ ~has_path(Last(handled).path)

\* the canonical AttributeModified event of the specification
AttributeModified(is_directory, path) == Event("attrib_modified", is_directory, path, "")

\* C13: when the signal the batch loop took up last is classified as
\* AttributeModified for path p and its event has been queued, the event
\* queued last is the AttributeModified event for p with the tag of the
\* descriptor, which is no Modified event.
C13_AttribEventDistinct ==
    (/\ handled # << >>
     /\ Last(handled).path # ""
     /\ Classify(Last(handled)) = "attrib"
     /\ Last(handled).wait = waits
     /\ pc[E] = "q_batch")
    => /\ queue # << >>
       /\ Last(queue) = AttributeModified(Last(handled).is_directory, Last(handled).path)
       /\ Last(queue) # Modified(Last(handled).is_directory, Last(handled).path)

\* C14: in the iteration of a native wait, a Modified signal on a file has
\* queued exactly one event when the batch loop goes on, the Modified
\* event of the file; a Modified signal on a directory has queued nothing
\* and has put the path of the directory into dirs_modified; and the
\* resync starts only when the whole batch has been handled.
C14_ModifiedFileNowDirLater ==
    /\ pc[E] = "q_snapshot" => event_list = << >>
    /\ (/\ handled # << >>
        /\ Last(handled).path # ""
        /\ Classify(Last(handled)) = "modified"
        /\ Last(handled).wait = waits
        /\ pc[E] \in {"q_batch", "q_snapshot"})
       => LET h == Last(handled)
          IN IF h.is_directory
                THEN /\ Len(queue) = h.at
                     /\ h.path \in dirs_modified
                ELSE /\ Len(queue) = h.at + 1
                     /\ Last(queue) = Modified(FALSE, h.path)

\* C14 witness: in one batch a Modified signal on a file has queued its
\* event and a Modified signal on a directory has only been deferred; the
\* batch is done.
C14_Witness ==
    /\ pc[E] = "q_snapshot"
    /\ dirs_modified # {}
    /\ \E i \in 1..Len(handled) :
          /\ handled[i].wait = waits
          /\ Classify(handled[i]) = "modified"
          /\ ~handled[i].is_directory /\ handled[i].path # ""
          /\ Len(queue) > handled[i].at
          /\ queue[handled[i].at + 1] = Modified(FALSE, handled[i].path)
    /\ \E j \in 1..Len(handled) :
          /\ handled[j].wait = waits
          /\ Classify(handled[j]) = "modified"
          /\ handled[j].is_directory
          /\ handled[j].path \in dirs_modified

\* C15: at the end of a loop iteration whose deferred sets were not both
\* empty, the saved snapshot is the fresh one, every path of it that the
\* tree did not hold at the start has a descriptor, and every path of the
\* start that it does not hold has none.  Stated for runs in which no other
\* thread calls the descriptor set.
C15_ResyncMatchesSnapshot ==
    (/\ pc[E] = "q_while"
     /\ waits >= 1
     /\ dirs_modified \cup dirs_renamed # {}
     /\ calls["t1"] = 0)
    => /\ snapshot = Capture
       /\ \A q \in Paths :
             /\ (q \in DOMAIN snapshot /\ InitTree[q] = 0) => has_path(q)
             /\ (q \notin DOMAIN snapshot /\ InitTree[q] # 0) => ~has_path(q)

\* __init__ has just returned: run is about to read the stop flag for the
\* first time, and no other thread has called the descriptor set
InitDone == pc[E] = "run_check" /\ waits = 0 /\ calls["t1"] = 0

\* C16: when __init__ has returned, every entry of the initial snapshot has
\* a descriptor with the tag of the entry or, its registration having
\* failed with ENOENT, a Created event and next a Deleted event in the
\* queue; and every path that has a descriptor is an entry of the snapshot.
C16_InitRegistersWalk ==
    InitDone =>
        /\ \A q \in DOMAIN snapshot :
              \/ /\ has_path(q)
                 /\ descriptor_for_path[q].is_directory = (q \in DirPaths)
              \/ \E i \in 1..Len(enoent) :
                    /\ enoent[i].path = q
                    /\ Len(queue) >= enoent[i].at + 2
                    /\ queue[enoent[i].at + 1] = Created(q \in DirPaths, q)
                    /\ queue[enoent[i].at + 2] = Deleted(q \in DirPaths, q)
        /\ \A q \in DOMAIN descriptor_for_path : q \in DOMAIN snapshot

\* C16 witness: __init__ has returned with descriptors registered and with
\* one entry of the snapshot that had vanished.
C16_Witness ==
    /\ InitDone
    /\ enoent # << >>
    /\ \E q \in DOMAIN snapshot : has_path(q)
    /\ \E q \in DOMAIN snapshot : ~has_path(q)

\* the events that the pending steps of the emitter will queue, in order
PutEvents(steps) ==
    LET puts == SelectSeq(steps, LAMBDA st : st.op = "put")
    IN [i \in 1..Len(puts) |-> puts[i].ev]

\* C17: when the batch loop has just handed the rename signal of a tracked
\* file src to _queue_file_renamed, with i the inode of src in the saved
\* snapshot: if the tree holds i under another path dest, the events to be
\* queued are exactly Moved(src, dest); if the tree does not hold i, they
\* include Deleted(src), and Created(src) as well when the tree holds
\* another entry at src.
C17_FileRenamedCases ==
    (/\ handled # << >>
     /\ Last(handled).path \in DOMAIN snapshot
     /\ ~Last(handled).is_directory
     /\ Classify(Last(handled)) = "renamed"
     /\ pc[E] = "exec"
     /\ after = "q_batch"
     /\ Len(queue) = Last(handled).at
     /\ todo # << >>
     /\ Head(todo).op \in {"unregister", "put"})
    => LET src == Last(handled).path
           i == snapshot[src]
           new == Capture
           emitted == PutEvents(todo)
           has(ev) == \E k \in 1..Len(emitted) : emitted[k] = ev
       IN /\ \A dest \in DOMAIN new :
                (dest # src /\ new[dest] = i) => emitted = << Moved(FALSE, src, dest) >>
          /\ (\A q \in DOMAIN new : new[q] # i) =>
                /\ has(Deleted(FALSE, src))
                /\ src \in DOMAIN new => has(Created(FALSE, src))

\* C18: when the last call the emitter made on the descriptor set is an
\* add that failed with EMFILE, the emitter is at the return of that call,
\* in the except clause of queue_events, or ended by the error; the queue
\* holds no Created and no Deleted event for the path; and the path has no
\* descriptor (as long as no other thread has called the set).
C18_OtherErrorsPropagate ==
    (res[E].op = "add" /\ res[E].out = "EMFILE")
    => /\ pc[E] \in {"ret", "q_except", "crashed"}
       /\ pc[E] # "ret" => error # "none"
       /\ Count(Created(res[E].is_directory, res[E].path)) = 0
       /\ Count(Deleted(res[E].is_directory, res[E].path)) = 0
       /\ calls["t1"] = 0 => ~has_path(res[E].path)

\* C18 witness: an add of the emitter failed with EMFILE after other paths
\* had been registered, and the error has ended the emitter.
C18_Witness ==
    /\ res[E].op = "add" /\ res[E].out = "EMFILE"
    /\ pc[E] = "crashed"
    /\ error = "EMFILE"
    /\ descriptors # {}

\* C19: a step taken from the except clause of queue_events with an EBADF
\* error of the native wait does not end the emitter with an error: the
\* emitter leaves queue_events and run reads the stop flag next; a step
\* taken there with an EINTR error of the native wait ends the emitter
\* with an error.
C19_EbadfTolerated ==
    [][/\ (pc[E] = "q_except" /\ error = "EBADF")
            => pc'[E] \in {"q_except", "run_check"}
       /\ (pc[E] = "q_except" /\ error = "EINTR")
            => pc'[E] \in {"q_except", "crashed"}]_vars

\* C20: while the emitter is about to call kq.control or is blocked in it,
\* the emitter's thread does not hold the lock of the descriptor set.
C20_LockFreeDuringWait ==
    pc[E] \in {"q_read", "q_wait"} => lock # E

\* C20 witness: the emitter is blocked in the native wait with a list of
\* kevents, and another thread has acquired the lock of the descriptor set.
C20_Witness ==
    /\ pc[E] = "q_wait"
    /\ kevent_list # {}
    /\ lock = "t1"

\* C21: an iteration of queue_events whose batch left both the set of
\* renamed directories and the set of modified directories empty leaves the
\* emitter's snapshot as it was: the step that ends the iteration (from the
\* snapshot lines 480 to 490 back to the loop check) does not change it.
C21_NoSnapshotWhenNothingDeferred ==
    [][(/\ pc[E] = "q_snapshot"
        /\ pc'[E] = "q_while"
        /\ dirs_renamed = {}
        /\ dirs_modified = {})
       => snapshot' = snapshot]_vars

\* the handles the descriptor set has opened and not closed are the open
\* fds; handle f is indexed when the handle index maps it to a descriptor
\* of that fd which is the one descriptor of the collection with that fd
Indexed(f) ==
    /\ f \in DOMAIN descriptor_for_fd
    /\ descriptor_for_fd[f].fd = f
    /\ {d \in descriptors : d.fd = f} = {descriptor_for_fd[f]}

\* C22: every handle the descriptor set has opened and not closed is indexed
\* by exactly one descriptor, whatever add, remove, a Moved re-keying or a
\* failed registration did before; the one exception is the handle a call
\* of add has just opened and is entering, with the lock held, into the
\* collection (lines 250 to 253).  When the emitter has reached STOPPED, in
\* a run in which no other thread has called the descriptor set, no handle
\* is open.
C22_NoOrphanHandle ==
    /\ \A f \in DOMAIN open_fds :
          \/ Indexed(f)
          \/ /\ lock # NoThread
             /\ pc[lock] \in {"add_250", "add_251", "add_252", "add_253"}
             /\ frame[lock].d.fd = f
    /\ (pc[E] = "stopped" /\ calls["t1"] = 0) => DOMAIN open_fds = {}

\* C22 witness: the emitter has reached STOPPED, after a registration that
\* failed with ENOENT and with no call of another thread.
C22_Witness ==
    /\ pc[E] = "stopped"
    /\ calls["t1"] = 0
    /\ enoent # << >>
    /\ queue # << >>
    /\ DOMAIN snapshot # {}

\* the classification the fixed precedence Deleted, AttributeModified,
\* Modified, RenameCandidate gives to the flags of a signal
SignalClass(h) ==
    IF "DELETE" \in h.fflags THEN "deleted"
    ELSE IF "ATTRIB" \in h.fflags THEN "attrib"
    ELSE IF "WRITE" \in h.fflags \/ "EXTEND" \in h.fflags THEN "modified"
    ELSE IF "RENAME" \in h.fflags THEN "renamed"
    ELSE "none"

\* C23: the signal the batch loop took up last, resolved to a descriptor of
\* path p, is handled under the one classification the precedence gives to
\* its flags.  Right after it was taken up, the events about to be queued
\* are the Deleted event of p alone for a Deleted signal, one event of p
\* that is no Deleted, Moved or Created event for an AttributeModified
\* signal, and the Modified event of p alone for a Modified signal on a
\* file; only a signal of a file with the rename flag and none of the
\* others goes to the rename resolution.  When the batch loop goes on, a
\* signal with a direct event has queued one event and entered no deferred
\* set, and a Modified or RenameCandidate signal of a directory has queued
\* nothing and entered its one set.
C23_OneClassification ==
    (/\ handled # << >>
     /\ Last(handled).path # ""
     /\ Last(handled).wait = waits)
    => LET h == Last(handled)
           c == SignalClass(h)
           direct == c \in {"deleted", "attrib"} \/ (c = "modified" /\ ~h.is_directory)
       IN /\ (/\ pc[E] = "exec"
              /\ after = "q_batch"
              /\ Len(queue) = h.at
              /\ todo # << >>
              /\ Head(todo).op \in {"unregister", "put"})
             => LET emitted == PutEvents(todo)
                IN /\ c = "deleted" => emitted = << Deleted(h.is_directory, h.path) >>
                   /\ c = "attrib" =>
                         /\ Len(emitted) = 1
                         /\ emitted[1].src_path = h.path
                         /\ emitted[1].event_type \notin {"deleted", "moved", "created"}
                   /\ c = "modified" => emitted = << Modified(FALSE, h.path) >>
                   /\ ~direct => (c = "renamed" /\ ~h.is_directory)
          /\ pc[E] \in {"q_batch", "q_snapshot"}
             => /\ direct =>
                      /\ Len(queue) = h.at + 1
                      /\ Last(queue).src_path = h.path
                      /\ h.path \notin dirs_modified \cup dirs_renamed
                /\ c = "deleted" => Last(queue) = Deleted(h.is_directory, h.path)
                /\ (c = "modified" /\ h.is_directory) =>
                      /\ Len(queue) = h.at
                      /\ h.path \in dirs_modified \ dirs_renamed
                /\ (c = "renamed" /\ h.is_directory) =>
                      /\ Len(queue) = h.at
                      /\ h.path \in dirs_renamed \ dirs_modified

\* C23 witness: a signal with both the delete and the rename flag has just
\* been taken up, and the Deleted event of its path is all that is about to
\* be queued.
C23_Witness ==
    /\ handled # << >>
    /\ Last(handled).wait = waits
    /\ {"DELETE", "RENAME"} \subseteq Last(handled).fflags
    /\ pc[E] = "exec"
    /\ after = "q_batch"
    /\ Len(queue) = Last(handled).at
    /\ PutEvents(todo) = << Deleted(FALSE, Last(handled).path) >>

\* C24: when the registration of dest failed with ENOENT while the signal
\* taken up last was being resolved, a Moved event with that dest queued for
\* the signal is the first event queued after the failure, so that it
\* stands before the Created and the Deleted event of dest.
C24_MovedBeforeSynthesized ==
    (/\ handled # << >>
     /\ enoent # << >>
     /\ Last(enoent).at >= Last(handled).at)
    => \A i \in (Last(handled).at + 1)..Len(queue) :
          (/\ queue[i].event_type = "moved"
           /\ queue[i].src_path = Last(handled).path
           /\ queue[i].dest_path = Last(enoent).path)
          => i = Last(enoent).at + 1

====
